---- MODULE Spec2Model ----
(***************************************************************************)
(* StaticTypeMap<T> of generic_static (src/lib.rs): a map from TypeId to a *)
(* leaked &'static T behind one RwLock, and its single operation call_once.*)
(* Every thread runs call_once calls; an initializer may itself call       *)
(* call_once on the same map (a stack of frames per thread).               *)
(***************************************************************************)
EXTENDS Naturals, Integers, Sequences, FiniteSets, TLC

\* Bounds of the model.
NumThreads == 2
NumKeys == 2
MaxCalls == 3

Threads == 1..NumThreads
\* TypeId::of::<Type>(): one opaque identifier per type.
Keys == 1..NumKeys
\* "no reference": Option::None of reader.get(), a vacant entry.
NoRef == 0
\* No thread holds the write guard.
NoOwner == <<0, 0>>

VARIABLES
    map,       \* HashMap<TypeId, &'static T>: key -> address in heap, NoRef if absent
    heap,      \* the leaked boxes, in allocation order; an address is an index
    readers,   \* read guards alive: set of <<thread, frame depth>>
    writer,    \* the write guard alive: <<thread, frame depth>>, or NoOwner
    poisoned,  \* the RwLock is poisoned (a writer panicked)
    stack,     \* per thread: the call_once frames it is inside, outermost first
    calls,     \* per thread: call_once invocations started so far
    outcome,   \* per thread: how the last call_once it left ended
    inits,     \* per key: initializer invocations so far (history)
    returned   \* per key: the references call_once has returned so far (history)

vars == <<map, heap, readers, writer, poisoned, stack, calls, outcome, inits, returned>>

----------------------------------------------------------------------------
\* Frames and values

Depth(t) == Len(stack[t])
Top(t) == stack[t][Depth(t)]
Me(t) == <<t, Depth(t)>>

\* The local `value` before f() has returned.
NoValue == [key |-> 0, by |-> <<0, 0>>, uses |-> <<>>]

\* A frame of call_once::<key>: id numbers the thread's calls, pre is the map's
\* entry for key when the call started, inner the references its initializer got
\* from the call_once calls it made, val the local `value`.
NewFrame(t, k) ==
    [key |-> k, id |-> calls[t] + 1, pc |-> "rlock", pre |-> map[k],
     inner |-> <<>>, val |-> NoValue]

\* The T an initializer returns: which call's closure built it, for which key,
\* from which inner results (format!("{} and", get_u32_value()) in the test).
InitValue(t, fr) == [key |-> fr.key, by |-> <<t, fr.id>>, uses |-> fr.inner]

RECURSIVE SumCalls(_)
SumCalls(S) ==
    IF S = {} THEN 0
    ELSE LET t == CHOOSE x \in S : TRUE IN calls[t] + SumCalls(S \ {t})

\* call_once invocations started so far, over all threads.
Started == SumCalls(Threads)

NoOutcome == [key |-> 0, id |-> 0, depth |-> 0, pre |-> NoRef, ret |-> NoRef, how |-> "none"]

\* How the call of frame fr ended.
Ended(fr, d, ret, how) ==
    [key |-> fr.key, id |-> fr.id, depth |-> d, pre |-> fr.pre, ret |-> ret, how |-> how]

SetTop(t, fr) == [stack EXCEPT ![t] = [@ EXCEPT ![Depth(t)] = fr]]

\* The frame on top returns ret: its caller is the initializer of the frame
\* below (which records the reference) or the thread itself.
ReturnTo(t, ret) ==
    IF Depth(t) > 1
    THEN [stack EXCEPT ![t] =
            [i \in 1..(Depth(t) - 1) |->
                IF i = Depth(t) - 1
                THEN [@[i] EXCEPT !.inner = Append(@, ret)]
                ELSE @[i]]]
    ELSE [stack EXCEPT ![t] = <<>>]

OutcomeOf(t, ret, how) ==
    [outcome EXCEPT ![t] = Ended(Top(t), Depth(t), ret, how)]

----------------------------------------------------------------------------
\* The map operations

\* Variant of Get: the lookup is keyed by the value type T, which is never a
\* key of the map, so it always misses.
GetOfValueType(k) == NoRef

\* reader.get(&TypeId::of::<Type>())
Get(k) == map[k]

\* Variant of OrInsertWith: writer.insert(key, leaked) replaces an occupied entry.
InsertOverwrite(k, v) ==
    [map |-> [map EXCEPT ![k] = Len(heap) + 1],
     heap |-> Append(heap, v),
     ret |-> Len(heap) + 1]

\* Variant of OrInsertWith: or_insert(Box::leak(..)) leaks the box before the
\* entry is looked at, also when the entry is occupied.
InsertLeakFirst(k, v) ==
    IF map[k] = NoRef
    THEN [map |-> [map EXCEPT ![k] = Len(heap) + 1],
          heap |-> Append(heap, v),
          ret |-> Len(heap) + 1]
    ELSE [map |-> map, heap |-> Append(heap, v), ret |-> map[k]]

\* Variant of OrInsertWith: one slot shared by every type (the static of a
\* generic function, the crate's motivating problem): the first key is used
\* whatever Type is.
InsertSharedSlot(k, v) ==
    IF map[1] = NoRef
    THEN [map |-> [map EXCEPT ![1] = Len(heap) + 1],
          heap |-> Append(heap, v),
          ret |-> Len(heap) + 1]
    ELSE [map |-> map, heap |-> heap, ret |-> map[1]]

\* Variant of OrInsertWith: the entry is filled with a placeholder, not with the
\* value the initializer returned.
InsertPlaceholder(k, v) ==
    IF map[k] = NoRef
    THEN [map |-> [map EXCEPT ![k] = Len(heap) + 1],
          heap |-> Append(heap, NoValue),
          ret |-> Len(heap) + 1]
    ELSE [map |-> map, heap |-> heap, ret |-> map[k]]

\* writer.entry(key).or_insert_with(|| Box::leak(Box::new(value)))
OrInsertWith(k, v) ==
    IF map[k] = NoRef
    THEN [map |-> [map EXCEPT ![k] = Len(heap) + 1],
          heap |-> Append(heap, v),
          ret |-> Len(heap) + 1]
    ELSE [map |-> map, heap |-> heap, ret |-> map[k]]

\* Variant of DropReader: the read guard lives to the end of call_once.
KeepReader(t) == readers

\* The read guard of the frame on top goes out of scope (end of the block).
DropReader(t) == readers \ {Me(t)}

\* Variant of DropWriter: the write guard is leaked (never dropped).
KeepWriter(t) == writer

\* The write guard goes out of scope when call_once returns.
DropWriter(t) == IF writer = Me(t) THEN NoOwner ELSE writer

\* Variant of Unwind: the initializer runs under the write guard (taken before
\* f is called), so a panic of f drops that guard while panicking and poisons
\* the lock.
UnwindPoisons(t) ==
    /\ stack' = [stack EXCEPT ![t] = <<>>]
    /\ outcome' = [outcome EXCEPT ![t] = Ended(stack[t][1], 1, NoRef, "panic")]
    /\ readers' = {r \in readers : r[1] # t}
    /\ writer' = IF writer[1] = t THEN NoOwner ELSE writer
    /\ poisoned' = TRUE

\* A panic unwinds every frame of the thread: the guards its frames hold are
\* dropped, and a write guard dropped while panicking poisons the lock.
Unwind(t) ==
    /\ stack' = [stack EXCEPT ![t] = <<>>]
    /\ outcome' = [outcome EXCEPT ![t] = Ended(stack[t][1], 1, NoRef, "panic")]
    /\ readers' = {r \in readers : r[1] # t}
    /\ writer' = IF writer[1] = t THEN NoOwner ELSE writer
    /\ poisoned' = (poisoned \/ writer[1] = t)

----------------------------------------------------------------------------
Init ==
    /\ map = [k \in Keys |-> NoRef]
    /\ heap = <<>>
    /\ readers = {}
    /\ writer = NoOwner
    /\ poisoned = FALSE
    /\ stack = [t \in Threads |-> <<>>]
    /\ calls = [t \in Threads |-> 0]
    /\ outcome = [t \in Threads |-> NoOutcome]
    /\ inits = [k \in Keys |-> 0]
    /\ returned = [k \in Keys |-> {}]

\* A thread calls map.call_once::<k, _>(f).
Begin(t, k) ==
    /\ Depth(t) = 0
    /\ Started < MaxCalls
    /\ stack' = [stack EXCEPT ![t] = <<NewFrame(t, k)>>]
    /\ calls' = [calls EXCEPT ![t] = @ + 1]
    /\ UNCHANGED <<map, heap, readers, writer, poisoned, outcome, inits, returned>>

\* let reader = self.map.read().unwrap();
AcquireRead(t) ==
    /\ Depth(t) > 0
    /\ Top(t).pc = "rlock"
    /\ writer = NoOwner
    /\ IF poisoned
       THEN Unwind(t) /\ UNCHANGED <<map, heap, calls, inits, returned>>
       ELSE /\ readers' = readers \cup {Me(t)}
            /\ stack' = SetTop(t, [Top(t) EXCEPT !.pc = "get"])
            /\ UNCHANGED <<map, heap, writer, poisoned, calls, outcome, inits, returned>>

\* if let Some(reference) = reader.get(..) { return reference } and the end of
\* the block: the guard is dropped; on a miss the next statement invokes f.
Lookup(t) ==
    /\ Depth(t) > 0
    /\ Top(t).pc = "get"
    /\ LET k == Top(t).key
           hit == Get(k)
       IN  /\ readers' = DropReader(t)
           /\ IF hit # NoRef
              THEN /\ stack' = ReturnTo(t, hit)
                   /\ outcome' = OutcomeOf(t, hit, "hit")
                   /\ returned' = [returned EXCEPT ![k] = @ \cup {hit}]
                   /\ UNCHANGED inits
              ELSE /\ stack' = SetTop(t, [Top(t) EXCEPT !.pc = "init"])
                   /\ inits' = [inits EXCEPT ![k] = @ + 1]
                   /\ UNCHANGED <<outcome, returned>>
    /\ UNCHANGED <<map, heap, writer, poisoned, calls>>

\* Inside f(): the initializer calls call_once::<k, _> on the same map.
InitCall(t, k) ==
    /\ Depth(t) > 0
    /\ Top(t).pc = "init"
    /\ Started < MaxCalls
    /\ stack' = [stack EXCEPT ![t] = Append(@, NewFrame(t, k))]
    /\ calls' = [calls EXCEPT ![t] = @ + 1]
    /\ UNCHANGED <<map, heap, readers, writer, poisoned, outcome, inits, returned>>

\* let value = f(); the initializer returns its T.
InitReturn(t) ==
    /\ Depth(t) > 0
    /\ Top(t).pc = "init"
    /\ stack' = SetTop(t, [Top(t) EXCEPT !.pc = "wlock", !.val = InitValue(t, Top(t))])
    /\ UNCHANGED <<map, heap, readers, writer, poisoned, calls, outcome, inits, returned>>

\* Variant of InitPanic: the entry is reserved (a placeholder box is inserted)
\* before f runs, and a panic of f leaves it behind.
InitPanicAfterReserve(t) ==
    /\ Depth(t) > 0
    /\ Top(t).pc = "init"
    /\ Unwind(t)
    /\ LET r == OrInsertWith(Top(t).key, InitValue(t, Top(t)))
       IN  map' = r.map /\ heap' = r.heap
    /\ UNCHANGED <<calls, inits, returned>>

\* f() panics: the panic leaves call_once and every call_once around it.
InitPanic(t) ==
    /\ Depth(t) > 0
    /\ Top(t).pc = "init"
    /\ Unwind(t)
    /\ UNCHANGED <<map, heap, calls, inits, returned>>

\* let mut writer = self.map.write().unwrap();
AcquireWrite(t) ==
    /\ Depth(t) > 0
    /\ Top(t).pc = "wlock"
    /\ writer = NoOwner
    /\ readers = {}
    /\ IF poisoned
       THEN Unwind(t) /\ UNCHANGED <<map, heap, calls, inits, returned>>
       ELSE /\ writer' = Me(t)
            /\ stack' = SetTop(t, [Top(t) EXCEPT !.pc = "entry"])
            /\ UNCHANGED <<map, heap, readers, poisoned, calls, outcome, inits, returned>>

\* writer.entry(..).or_insert_with(..), the function's result; the write guard
\* is dropped on return.
Insert(t) ==
    /\ Depth(t) > 0
    /\ Top(t).pc = "entry"
    /\ LET k == Top(t).key
           r == OrInsertWith(k, Top(t).val)
       IN  /\ map' = r.map
           /\ heap' = r.heap
           /\ stack' = ReturnTo(t, r.ret)
           /\ outcome' = OutcomeOf(t, r.ret, IF Len(r.heap) > Len(heap) THEN "inserted" ELSE "lost")
           /\ returned' = [returned EXCEPT ![k] = @ \cup {r.ret}]
    /\ writer' = DropWriter(t)
    /\ UNCHANGED <<readers, poisoned, calls, inits>>

Step(t) ==
    \/ AcquireRead(t)
    \/ Lookup(t)
    \/ InitReturn(t)
    \/ InitPanic(t)
    \/ AcquireWrite(t)
    \/ Insert(t)

Next ==
    \E t \in Threads :
        \/ \E k \in Keys : Begin(t, k)
        \/ \E k \in Keys : InitCall(t, k)
        \/ Step(t)

Spec == Init /\ [][Next]_vars

\* The threads are scheduled fairly: a call_once that can take its next step
\* (its lock is free, its initializer terminates) eventually takes it.  Calling
\* call_once at all is up to the caller.
FairSpec == Spec /\ \A t \in Threads : WF_vars(Step(t))

----------------------------------------------------------------------------
\* Properties

Allocated == 1..Len(heap)
\* The leaked boxes that hold a value built for key k.
SlotsOf(k) == {a \in Allocated : heap[a].key = k}
Finished(t) == outcome[t].how \in {"hit", "inserted", "lost"}

\* C1 (as stated): for one map and one key, the initializers supplied to
\* call_once are invoked at most once in total.
C1_InitAtMostOnce == \A k \in Keys : inits[k] <= 1

\* C1 (amended): initializers of one key may be invoked more than once (every
\* call that misses the read-lock lookup invokes its own), but at most one
\* invocation's result is ever published for the key, and every published
\* value is the result of an invocation for that key.
C1_OnePublishedPerKey ==
    \A k \in Keys :
        /\ Cardinality(SlotsOf(k)) <= 1
        /\ Cardinality(SlotsOf(k)) <= inits[k]
        /\ map[k] # NoRef => SlotsOf(k) = {map[k]}

C1_Witness == \E k \in Keys : inits[k] >= 2 /\ map[k] # NoRef

\* C2: once the map has an entry for K, a call_once::<K> that starts afterwards
\* never invokes its initializer and returns the reference of that entry.
C2_HitAfterPublished ==
    /\ \A t \in Threads : \A d \in 1..Depth(t) :
            stack[t][d].pre # NoRef =>
                /\ stack[t][d].pc \in {"rlock", "get"}
                /\ stack[t][d].val = NoValue
                /\ map[stack[t][d].key] = stack[t][d].pre
    /\ \A t \in Threads :
            outcome[t].pre # NoRef =>
                /\ outcome[t].how = "hit"
                /\ outcome[t].ret = outcome[t].pre
                /\ map[outcome[t].key] = outcome[t].pre

C2_Witness ==
    \E t \in Threads :
        /\ outcome[t].pre # NoRef
        /\ outcome[t].how = "hit"
        /\ inits[outcome[t].key] = 1

\* C3: every call_once::<K> that returns yields the same slot, the map's entry
\* for K, racing calls included.
C3_SameSlot ==
    /\ \A k \in Keys : returned[k] \subseteq ({map[k]} \ {NoRef})
    /\ \A t \in Threads : Finished(t) => outcome[t].ret = map[outcome[t].key]

C3_Witness ==
    \E t1, t2 \in Threads :
        /\ t1 # t2
        /\ outcome[t1].how = "inserted"
        /\ outcome[t2].how = "lost"
        /\ outcome[t1].key = outcome[t2].key
        /\ outcome[t1].ret = outcome[t2].ret

\* C4: a call_once::<K1> never creates or changes the entry of another key K2
\* (only a call for K2, at its insert, does), and the value held for K2 was
\* built by an initializer supplied to a call for K2.
C4_KeyIsolation ==
    /\ [](\A k \in Keys : \A a \in returned[k] \cup ({map[k]} \ {NoRef}) :
            a \in Allocated /\ heap[a].key = k)
    /\ [][\A k \in Keys :
            map'[k] # map[k] =>
                \E t \in Threads :
                    /\ Depth(t) > 0
                    /\ Top(t).key = k
                    /\ Top(t).pc = "entry"
                    /\ stack'[t] # stack[t]]_vars

C4_Witness ==
    /\ \A k \in Keys : map[k] # NoRef
    /\ \E t \in Threads : outcome[t].how = "panic"


\* The elements of a sequence.
Range(q) == {q[i] : i \in 1..Len(q)}

\* Thread t is inside a call_once whose initializer is inside a call_once for
\* another key.
NestedOtherKey(t) ==
    /\ Depth(t) >= 2
    /\ stack[t][1].key # stack[t][2].key

\* The step in which the outermost call of t returns, its initializer having
\* called call_once.
OuterReturns(t) ==
    /\ Depth(t) = 1
    /\ Top(t).pc = "entry"
    /\ Top(t).inner # <<>>
    /\ stack'[t] = <<>>

\* C5: an initializer for K1 that calls call_once::<K2> (K2 # K1) on the same
\* map: the inner call completes with K2 published (every reference an
\* initializer got from an inner call is the entry of its key), then the outer
\* call completes (no deadlock) with K1 published: by this call, unless another
\* call for K1 ran its initializer too, and with the value its initializer
\* built from the inner result; afterwards K1 and K2 are both in the map.
C5_ReentrantOtherKey ==
    /\ [](\A t \in Threads : \A d \in 1..Depth(t) :
            \A a \in Range(stack[t][d].inner) : a \in Allocated /\ map[heap[a].key] = a)
    /\ [][\A t \in Threads :
            OuterReturns(t) =>
                LET k1 == Top(t).key
                IN  /\ map'[k1] # NoRef
                    /\ outcome'[t].ret = map'[k1]
                    /\ \A a \in Range(Top(t).inner) : map'[heap'[a].key] = a
                    /\ inits[k1] = 1 => outcome'[t].how = "inserted"
                    /\ outcome'[t].how = "inserted" =>
                            heap'[map'[k1]].uses = Top(t).inner]_vars
    /\ \A t \in Threads : NestedOtherKey(t) ~> (Depth(t) = 0)

C5_Witness ==
    \E t \in Threads :
        /\ Depth(t) = 0
        /\ outcome[t].how = "inserted"
        /\ outcome[t].depth = 1
        /\ LET v == heap[outcome[t].ret]
           IN  /\ Len(v.uses) = 1
               /\ heap[v.uses[1]].key # v.key
               /\ heap[v.uses[1]].by[1] = t

\* C6: the map starts empty, and an entry, once present, stays present with
\* the same reference and the same value: nothing is removed or replaced.
C6_WriteOnce ==
    /\ \A k \in Keys : map[k] = NoRef
    /\ [][\A k \in Keys :
            map[k] # NoRef =>
                /\ map'[k] = map[k]
                /\ map[k] \in 1..Len(heap')
                /\ heap'[map[k]] = heap[map[k]]]_vars

C6_Witness ==
    \E t \in Threads :
        /\ outcome[t].how = "lost"
        /\ heap[map[outcome[t].key]].by # <<t, outcome[t].id>>

\* The step in which the initializer of the call on top of t's stack panics.
PanicStep(t) ==
    /\ Depth(t) > 0
    /\ Top(t).pc = "init"
    /\ stack'[t] = <<>>

\* C7 (as stated): when the initializer of a call_once fails, the map is as it
\* was before the initializer started, apart from changes made by other
\* threads: the failing thread has published nothing since the call started
\* (the calls of a thread are numbered in the order they start).
C7_MapAsBeforeInit ==
    [][\A t \in Threads :
        PanicStep(t) =>
            /\ map' = map
            /\ \A d \in 1..Depth(t) : \A k \in Keys :
                    (map'[k] # NoRef /\ heap'[map'[k]].by[1] = t) =>
                        heap'[map'[k]].by[2] < stack[t][d].id]_vars

\* C7 (amended): when the initializer of a call_once fails, the call publishes
\* nothing: the step leaves the map and the leaked values as they were, no
\* value built by the failed call is in the map (the entries that call_once
\* calls made and completed by the initializer published stay), and the
\* failure is the call's outcome.
C7_PanicPublishesNothing ==
    [][\A t \in Threads :
        PanicStep(t) =>
            /\ map' = map
            /\ heap' = heap
            /\ outcome'[t].how = "panic"
            /\ outcome'[t].key = stack[t][1].key
            /\ \A d \in 1..Depth(t) : \A a \in 1..Len(heap') :
                    heap'[a].by # <<t, stack[t][d].id>>]_vars

C7_Witness ==
    \E t \in Threads :
        /\ outcome[t].how = "panic"
        /\ Depth(t) = 0
        /\ map[outcome[t].key] = NoRef
        /\ \E k \in Keys : map[k] # NoRef

\* The guards the frame at depth d of thread t holds.
HoldsRead(t, d) == <<t, d>> \in readers
HoldsWrite(t, d) == writer = <<t, d>>

\* C8: a call_once whose initializer is running holds neither the read nor the
\* write guard, and a thread that is executing initializer code holds no guard
\* at all.
C8_NoLockDuringInit ==
    \A t \in Threads :
        /\ \A d \in 1..Depth(t) :
                stack[t][d].pc = "init" => ~HoldsRead(t, d) /\ ~HoldsWrite(t, d)
        /\ (Depth(t) > 0 /\ Top(t).pc = "init") =>
                writer[1] # t /\ \A r \in readers : r[1] # t

\* An initializer is running while other threads look up and insert.
C8_Witness ==
    \E t1, t2 \in Threads :
        /\ Depth(t1) > 0 /\ Top(t1).pc = "init"
        /\ HoldsWrite(t2, Depth(t2))
        /\ \E k \in Keys : map[k] # NoRef

\* The initializer of frame fr has been invoked.
InitInvoked(fr) == fr.pc \in {"init", "wlock", "entry"}

\* C9 (as stated): the initializer is invoked only if the key is still absent
\* at the existence check made under the write lock.
C9_InitOnlyIfAbsentAtSecondCheck ==
    \A t \in Threads : \A d \in 1..Depth(t) :
        (HoldsWrite(t, d) /\ InitInvoked(stack[t][d])) => map[stack[t][d].key] = NoRef

\* The step in which the call on top of t's stack runs entry().or_insert_with().
InsertStep(t) ==
    /\ Depth(t) > 0
    /\ Top(t).pc = "entry"
    /\ stack'[t] # stack[t]

\* C9 (amended): a call whose read-lock lookup missed invokes its initializer
\* before it takes the write lock, whatever the map holds by then; the existence
\* check under the write lock decides only whether the computed value is
\* inserted: if the key was inserted in between, the existing slot is returned
\* and nothing is inserted.
C9_SecondCheckAfterInit ==
    /\ [](\A t \in Threads : \A d \in 1..Depth(t) :
            LET fr == stack[t][d]
            IN  /\ fr.pc \in {"wlock", "entry"} <=> fr.val # NoValue
                /\ fr.val # NoValue => fr.pre = NoRef /\ fr.val.by = <<t, fr.id>>
                /\ HoldsWrite(t, d) <=> fr.pc = "entry")
    /\ [][\A t \in Threads :
            (InsertStep(t) /\ map[Top(t).key] # NoRef) =>
                /\ map' = map
                /\ outcome'[t].ret = map[Top(t).key]
                /\ outcome'[t].how = "lost"]_vars

C9_Witness ==
    \E t \in Threads :
        /\ Depth(t) > 0
        /\ Top(t).pc = "entry"
        /\ map[Top(t).key] # NoRef

\* C10: calls for one key that all missed the read-lock lookup each run their
\* own initializer; the first to take the write lock publishes its value, each
\* later one finds the entry occupied, drops its value without inserting or
\* leaking it, and returns the first writer's slot.
C10_RaceFirstWriterWins ==
    [][\A t \in Threads :
        InsertStep(t) =>
            LET k == Top(t).key
                v == Top(t).val
            IN  /\ v = InitValue(t, Top(t))
                /\ outcome'[t].id = Top(t).id
                /\ IF map[k] = NoRef
                   THEN /\ heap' = Append(heap, v)
                        /\ map' = [map EXCEPT ![k] = Len(heap')]
                        /\ outcome'[t].ret = map'[k]
                        /\ outcome'[t].how = "inserted"
                   ELSE /\ heap' = heap
                        /\ map' = map
                        /\ heap[map[k]] # v
                        /\ outcome'[t].ret = map[k]
                        /\ outcome'[t].how = "lost"]_vars

C10_Witness ==
    \E t1, t2 \in Threads :
        /\ t1 # t2
        /\ outcome[t2].how = "lost"
        /\ outcome[t2].depth = 1
        /\ heap[outcome[t2].ret].by[1] = t1
        /\ inits[outcome[t2].key] = 2


\* Thread t is inside a call_once whose initializer is inside a call_once for
\* the same key.
NestedSameKey(t) ==
    /\ Depth(t) >= 2
    /\ stack[t][1].key = stack[t][2].key

\* The references the initializer of frame fr got from call_once calls for
\* fr's own key.
SameKeyInner(fr) == {a \in Range(fr.inner) : heap[a].key = fr.key}

\* C11: an initializer for K that calls call_once::<K> on the same map: neither
\* call deadlocks; the inner call returns with K published (by the inner call
\* itself when no other thread uses the map, never by the outer call), and the
\* outer call then returns that same slot, inserts nothing and drops the value
\* its own initializer built.
C11_ReentrantSameKey ==
    /\ [](\A t \in Threads : \A d \in 1..Depth(t) :
            LET fr == stack[t][d]
            IN  \A a \in SameKeyInner(fr) :
                    /\ map[fr.key] = a
                    /\ heap[a].by # <<t, fr.id>>
                    /\ heap[a].by[1] = t => heap[a].by[2] > fr.id
                    /\ (\A u \in Threads \ {t} : calls[u] = 0) => heap[a].by[1] = t)
    /\ [][\A t \in Threads :
            (InsertStep(t) /\ SameKeyInner(Top(t)) # {}) =>
                /\ map' = map
                /\ heap' = heap
                /\ outcome'[t].how = "lost"
                /\ outcome'[t].ret \in SameKeyInner(Top(t))
                /\ heap[outcome'[t].ret] # Top(t).val]_vars
    /\ \A t \in Threads : NestedSameKey(t) ~> (Depth(t) = 0)

C11_Witness ==
    \E t \in Threads :
        /\ Depth(t) = 0
        /\ outcome[t].how = "lost"
        /\ outcome[t].depth = 1
        /\ outcome[t].id = 1
        /\ heap[outcome[t].ret].by = <<t, 2>>
        /\ heap[outcome[t].ret].key = outcome[t].key


\* Thread t holds some guard of the lock.
ThreadReads(t) == \E r \in readers : r[1] = t
ThreadWrites(t) == writer[1] = t

\* C12: no thread holds the read lock and the write lock at once: the read
\* guard of a call is gone before the call runs its initializer or requests
\* the write lock, and a thread requesting or holding the write lock holds no
\* read guard at all.
C12_NeverReadAndWrite ==
    \A t \in Threads :
        /\ ~(ThreadReads(t) /\ ThreadWrites(t))
        /\ \A d \in 1..Depth(t) :
                /\ HoldsRead(t, d) <=> stack[t][d].pc = "get"
                /\ stack[t][d].pc \in {"init", "wlock", "entry"} => ~HoldsRead(t, d)
        /\ (Depth(t) > 0 /\ Top(t).pc \in {"wlock", "entry"}) => ~ThreadReads(t)

\* A call that has read and missed waits for the write lock while another
\* thread reads.
C12_Witness ==
    \E t, u \in Threads :
        /\ Depth(t) > 0 /\ Top(t).pc = "wlock"
        /\ ThreadReads(u)
        /\ ~ThreadReads(t)

\* The step in which the call on top of t's stack looks the key up under the
\* read lock.
LookupStep(t) ==
    /\ Depth(t) > 0
    /\ Top(t).pc = "get"
    /\ stack'[t] # stack[t]

\* C13: a call_once that finds its key at the read-lock lookup returns the
\* stored reference at once: it held only the read guard, it has not run and
\* does not run its initializer, it never asks for the write lock, and the map
\* and the leaked values are unchanged.
C13_FastPath ==
    [][\A t \in Threads :
        (LookupStep(t) /\ map[Top(t).key] # NoRef) =>
            /\ Depth(t)' = Depth(t) - 1
            /\ outcome'[t] = Ended(Top(t), Depth(t), map[Top(t).key], "hit")
            /\ Top(t).val = NoValue
            /\ HoldsRead(t, Depth(t)) /\ ~ThreadWrites(t)
            /\ readers' = readers \ {Me(t)}
            /\ writer' = writer
            /\ map' = map
            /\ heap' = heap
            /\ inits' = inits]_vars

\* A call that started before the key was published and found it at the lookup.
C13_Witness ==
    \E t \in Threads :
        /\ outcome[t].how = "hit"
        /\ outcome[t].pre = NoRef
        /\ outcome[t].ret = map[outcome[t].key]


\* The step in which a call_once of thread t ends in a panic.
FailStep(t) ==
    /\ Depth(t) > 0
    /\ stack'[t] = <<>>
    /\ outcome'[t].how = "panic"

\* C14: a failed initializer leaves the store usable and the key unmarked: the
\* lock is never poisoned, the failing thread keeps no guard and the guards of
\* the others are untouched, the entry of the key is as it was, and a call
\* fails only because an initializer in it panicked (never at a lock).  A
\* later call for the key that finds it vacant under the write lock publishes
\* the value of its own initializer and returns it, however many initializers
\* for the key ran before.
C14_RetryAfterFailure ==
    /\ [](~poisoned)
    /\ [][\A t \in Threads :
            FailStep(t) =>
                /\ Top(t).pc = "init"
                /\ ~poisoned'
                /\ readers' = readers /\ writer' = writer
                /\ ~ThreadReads(t)' /\ ~ThreadWrites(t)'
                /\ map' = map]_vars
    /\ [][\A t \in Threads :
            (InsertStep(t) /\ map[Top(t).key] = NoRef) =>
                /\ Top(t).val = InitValue(t, Top(t))
                /\ heap'[map'[Top(t).key]] = Top(t).val
                /\ outcome'[t] = Ended(Top(t), Depth(t), map'[Top(t).key], "inserted")]_vars

\* Thread t alone used the map: its first call for the key failed, its second
\* call for the same key ran its initializer and published its value.
C14_Witness ==
    \E t \in Threads :
        /\ \A u \in Threads \ {t} : calls[u] = 0
        /\ Depth(t) = 0
        /\ outcome[t].how = "inserted"
        /\ outcome[t].depth = 1
        /\ outcome[t].id = 2
        /\ inits[outcome[t].key] = 2
        /\ heap[map[outcome[t].key]].by = <<t, 2>>


\* Thread t is inside call_once and its next step waits for the lock.
Blocked(t) ==
    /\ Depth(t) > 0
    /\ Top(t).pc \in {"rlock", "wlock"}
    /\ ~ENABLED Step(t)

\* Some call_once has not finished.
Unfinished == \E t \in Threads : Depth(t) > 0

\* C15: whatever the threads, the keys and the nesting of call_once inside
\* initializers, there is no state in which every unfinished call is blocked
\* on the lock, and under fair scheduling a thread inside call_once (at any
\* depth) eventually is outside every call: each call returned, or its
\* initializer failed.
C15_DeadlockFreeProgress ==
    /\ [](Unfinished => \E t \in Threads : Depth(t) > 0 /\ ENABLED Step(t))
    /\ \A t \in Threads : (Depth(t) > 0) ~> (Depth(t) = 0)

\* A thread waits for the write lock while another, two calls deep, reads.
C15_Witness ==
    \E t, u \in Threads :
        /\ Blocked(t)
        /\ Top(t).pc = "wlock"
        /\ Depth(u) >= 2
        /\ ThreadReads(u)


\* The keys that have an entry.
Published == {k \in Keys : map[k] # NoRef}

\* C16: a value is boxed and leaked only by the insert of a vacant entry, under
\* the write lock, one box per step; so the leaked boxes are exactly the
\* entries of the map, one per published key, and a call that loses the race
\* or whose initializer fails leaks nothing.
C16_OneLeakPerKey ==
    /\ [](/\ Len(heap) = Cardinality(Published)
          /\ {map[k] : k \in Published} = Allocated)
    /\ [][heap' # heap =>
            \E t \in Threads :
                /\ InsertStep(t)
                /\ HoldsWrite(t, Depth(t))
                /\ map[Top(t).key] = NoRef
                /\ heap' = Append(heap, Top(t).val)
                /\ map' = [map EXCEPT ![Top(t).key] = Len(heap')]]_vars
    /\ [][\A t \in Threads :
            (FailStep(t) \/ (InsertStep(t) /\ map[Top(t).key] # NoRef)) => heap' = heap]_vars

\* One key is published; one call lost the race for it and one call failed.
C16_Witness ==
    /\ Len(heap) = 1
    /\ \E t, u \in Threads :
            /\ outcome[t].how = "lost"
            /\ outcome[u].how = "panic"
            /\ inits[outcome[t].key] >= 2

\* The frames of thread t that are for call number id of t.
FramesOf(t, id) == {d \in 1..Depth(t) : stack[t][d].id = id}

\* C17: the slot of a published key K holds a value that an initializer
\* supplied to a call_once::<K> of some thread returned (no placeholder, no
\* value of another key), built from references that call_once had returned to
\* that initializer; the call that published it has ended, and the call that
\* inserts an entry returns the slot that holds the value of its own
\* initializer.
C17_Provenance ==
    /\ [](\A k \in Published :
            LET v == heap[map[k]]
            IN  /\ v # NoValue
                /\ v.key = k
                /\ v.by[1] \in Threads
                /\ v.by[2] \in 1..calls[v.by[1]]
                /\ inits[k] >= 1
                /\ FramesOf(v.by[1], v.by[2]) = {}
                /\ \A a \in Range(v.uses) : a \in Allocated /\ a < map[k])
    /\ [](\A t \in Threads :
            outcome[t].how = "inserted" =>
                /\ map[outcome[t].key] = outcome[t].ret
                /\ heap[outcome[t].ret].by = <<t, outcome[t].id>>)
    /\ [][(map' # map \/ heap' # heap) =>
            \E t \in Threads :
                /\ InsertStep(t)
                /\ Top(t).val # NoValue
                /\ Top(t).val = InitValue(t, Top(t))
                /\ heap'[map'[Top(t).key]] = Top(t).val
                /\ outcome'[t].ret = map'[Top(t).key]]_vars

\* A published value built from the result of an inner call.
C17_Witness ==
    \E k \in Published :
        /\ heap[map[k]].uses # <<>>
        /\ \E t \in Threads : outcome[t].how = "inserted" /\ outcome[t].ret = map[k]

====
